---- MODULE Spec2Model ----
(***************************************************************************)
(* scad-server: the HTTP handlers (handlers/handlers.go) and the OpenSCAD  *)
(* service (services/convert.go) as a state machine.                       *)
(*                                                                         *)
(* services/convert.go holds two revisions of the service.  Revision 1 is  *)
(* lines 55-429 (logging, "--debug=all", working directory, combined       *)
(* output, Export without a deferred RemoveAll); revision 2 is lines       *)
(* 431-768 (Export with the deferred RemoveAll, stderr only).  Which one   *)
(* is built is not fixed by the source, so the variable rev is chosen in   *)
(* Init and every behaviour runs one of the two.                           *)
(*                                                                         *)
(* A call is one HTTP request: the handler binds the body, invokes the     *)
(* service, the service runs its steps (validate, MkdirTemp, WriteFile,    *)
(* executeCommand, ReadFile, deferred RemoveAll) and the handler answers.  *)
(* Steps of different calls interleave; the file system is shared.         *)
(***************************************************************************)
EXTENDS Integers, Sequences, FiniteSets, TLC

\* ------------------------------------------------------------------ bounds
NumCalls == 2       \* concurrent HTTP requests
MaxDirs == 2        \* names os.MkdirTemp can draw per prefix

Calls == 1..NumCalls
Revs == {1, 2}

\* ------------------------------------------------------ values and errors
\* A Go error is nil or carries its Error() text.
NilErr == [nil |-> TRUE, msg |-> ""]
Errorf(m) == [nil |-> FALSE, msg |-> m]

\* A nil pointer / absent JSON field is <<>>, a present value v is <<v>>.
None == <<>>
Some(v) == <<v>>
IsSome(o) == o # <<>>
Get(o) == o[1]

\* A string together with what path/filepath makes of it: dir is
\* filepath.Dir(text) when filepath.IsAbs(text), and "" otherwise.
\* base is filepath.Base(text) of such a path.
Str(t) == [text |-> t, dir |-> "", base |-> ""]
Join(d, name) == [text |-> d \o "/" \o name, dir |-> d, base |-> name]
IsAbs(tok) == tok.dir # ""
Dir(tok) == tok.dir

\* File contents, by what the readers of the file can tell apart.
ScadText == "cube([10,10,10]);"
PNG1 == "PNG:red4x4"
MESH1 == "solid cube"
JSONOBJ == "{\"geometry\":{\"facets\":6}}"
JSONARR == "[1,2]"
GARBAGE == "not a png"

\* ---------------------------------------------------------- convert.go
\* png.Decode accepts PNG bytes only.
PngDecodes(b) == b = PNG1

convertPNGToWebP(pngData) ==
    IF PngDecodes(pngData)
    THEN [data |-> "RIFF....WEBP(" \o pngData \o ")", err |-> NilErr]
    ELSE [data |-> "", err |-> Errorf("failed to decode PNG: png: invalid format: not a PNG file")]

convertPNGToAVIF(pngData) ==
    IF PngDecodes(pngData)
    THEN [data |-> "....ftypavif(" \o pngData \o ")", err |-> NilErr]
    ELSE [data |-> "", err |-> Errorf("failed to decode PNG: png: invalid format: not a PNG file")]

\* ------------------------------------------------- service: pure helpers
validFormats == {"png", "stl_binary", "stl_ascii", "svg", "pdf", "3mf"}

\* Mutant: every format is accepted.
validateFormat_AcceptAll(format) == NilErr

\* Mutant: webp and avif are accepted, and known to validateFormat only.
validateFormat_PlusWebp(format) ==
    IF format \notin validFormats \cup {"webp", "avif"}
    THEN Errorf("unsupported format: " \o format)
    ELSE NilErr

validateFormat(format) ==
    IF format \notin validFormats
    THEN Errorf("unsupported format: " \o format)
    ELSE NilErr

\* <<outputExt, exportFormat>>
getOutputExtension(format) ==
    CASE format = "png" -> <<"png", "">>
      [] format = "stl_binary" -> <<"stl", "binstl">>
      [] format = "stl_ascii" -> <<"stl", "asciistl">>
      [] format = "svg" -> <<"svg", "">>
      [] format = "pdf" -> <<"pdf", "">>
      [] format = "3mf" -> <<"3mf", "">>
      [] OTHER -> <<"", "">>

getContentType(format) ==
    CASE format = "png" -> "image/png"
      [] format \in {"stl_binary", "stl_ascii"} -> "application/octet-stream"
      [] format = "svg" -> "image/svg+xml"
      [] format = "pdf" -> "application/pdf"
      [] format = "3mf" -> "application/vnd.ms-package.3dmodel+xml"
      [] OTHER -> "application/octet-stream"

\* ------------------------------------------------ buildExportOptions
\* A float64 holding the decimal m / 10^e, m >= 0, kept normalised (m is
\* not a multiple of 10 unless e = 0), as JSON decoding produces it.
Pow10(e) == IF e = 0 THEN 1 ELSE IF e = 1 THEN 10 ELSE IF e = 2 THEN 100 ELSE 1000

\* The e fraction digits of m / 10^e, leading zeros kept.
FracDigits(m, e) ==
    LET f == m % Pow10(e)
    IN  IF e = 0 THEN ""
        ELSE IF e = 1 THEN ToString(f)
        ELSE IF e = 2 THEN ToString(f \div 10) \o ToString(f % 10)
        ELSE ToString(f \div 100) \o ToString((f \div 10) % 10) \o ToString(f % 10)

\* strconv.FormatFloat(x, 'f', -1, 64)
FormatFloat(x) ==
    IF x.e = 0 THEN ToString(x.m)
    ELSE ToString(x.m \div Pow10(x.e)) \o "." \o FracDigits(x.m, x.e)

\* fmt's %t and %d
FmtBool(b) == IF b THEN "true" ELSE "false"
FmtInt(i) == ToString(i)

\* Mutant: the override is appended without its "-O".
OptArg_NoFlag(field, text) == IF IsSome(field) THEN <<Str(text)>> ELSE <<>>

\* args = append(args, "-O", key=value) when the field is present
OptArg(field, text) == IF IsSome(field) THEN <<Str("-O"), Str(text)>> ELSE <<>>

\* Mutant: the range starts at 0.
PrecisionInRange_FromZero(p) == p >= 0 /\ p <= 16

PrecisionInRange(p) == p >= 1 /\ p <= 16

pngOptions(o) ==
    IF IsSome(o) /\ (IsSome(Get(o).Width) \/ IsSome(Get(o).Height))
    THEN LET width == IF IsSome(Get(o).Width) THEN Get(Get(o).Width) ELSE 800
             height == IF IsSome(Get(o).Height) THEN Get(Get(o).Height) ELSE 600
         IN  <<Str("--imgsize"), Str(FmtInt(width) \o "," \o FmtInt(height))>>
    ELSE <<>>

stlOptions(o) ==
    IF IsSome(o) /\ IsSome(Get(o).DecimalPrecision)
       /\ PrecisionInRange(Get(Get(o).DecimalPrecision))
    THEN <<Str("-O"),
           Str("export-stl/decimal-precision=" \o FmtInt(Get(Get(o).DecimalPrecision)))>>
    ELSE <<>>

svgOptions(o) ==
    IF IsSome(o)
    THEN LET b == Get(o)
         IN  OptArg(b.Fill, "export-svg/fill=" \o FmtBool(b.Fill[1]))
             \o OptArg(b.FillColor, "export-svg/fill-color=" \o b.FillColor[1])
             \o OptArg(b.Stroke, "export-svg/stroke=" \o FmtBool(b.Stroke[1]))
             \o OptArg(b.StrokeColor, "export-svg/stroke-color=" \o b.StrokeColor[1])
             \o OptArg(b.StrokeWidth, "export-svg/stroke-width=" \o FormatFloat(b.StrokeWidth[1]))
    ELSE <<>>

pdfOptions(o) ==
    IF IsSome(o)
    THEN LET b == Get(o)
         IN  OptArg(b.PaperSize, "export-pdf/paper-size=" \o b.PaperSize[1])
             \o OptArg(b.Orientation, "export-pdf/orientation=" \o b.Orientation[1])
             \o OptArg(b.ShowGrid, "export-pdf/show-grid=" \o FmtBool(b.ShowGrid[1]))
             \o OptArg(b.GridSize, "export-pdf/grid-size=" \o FormatFloat(b.GridSize[1]))
             \o OptArg(b.Fill, "export-pdf/fill=" \o FmtBool(b.Fill[1]))
             \o OptArg(b.FillColor, "export-pdf/fill-color=" \o b.FillColor[1])
             \o OptArg(b.Stroke, "export-pdf/stroke=" \o FmtBool(b.Stroke[1]))
             \o OptArg(b.StrokeColor, "export-pdf/stroke-color=" \o b.StrokeColor[1])
             \o OptArg(b.StrokeWidth, "export-pdf/stroke-width=" \o FormatFloat(b.StrokeWidth[1]))
    ELSE <<>>

threeMFPrecision(b) ==
    IF IsSome(b.DecimalPrecision) /\ PrecisionInRange(Get(b.DecimalPrecision))
    THEN <<Str("-O"), Str("export-3mf/decimal-precision=" \o FmtInt(Get(b.DecimalPrecision)))>>
    ELSE <<>>

threeMFOptions(o) ==
    IF IsSome(o)
    THEN LET b == Get(o)
         IN  OptArg(b.Unit, "export-3mf/unit=" \o b.Unit[1])
             \o threeMFPrecision(b)
             \o OptArg(b.Color, "export-3mf/color=" \o b.Color[1])
             \o OptArg(b.ColorMode, "export-3mf/color-mode=" \o b.ColorMode[1])
             \o OptArg(b.MaterialType, "export-3mf/material-type=" \o b.MaterialType[1])
             \o OptArg(b.AddMetadata, "export-3mf/add-meta-data=" \o FmtBool(b.AddMetadata[1]))
             \o OptArg(b.MetadataTitle, "export-3mf/meta-data-title=" \o b.MetadataTitle[1])
             \o OptArg(b.MetadataDesigner, "export-3mf/meta-data-designer=" \o b.MetadataDesigner[1])
             \o OptArg(b.MetadataDesc, "export-3mf/meta-data-description=" \o b.MetadataDesc[1])
             \o OptArg(b.MetadataCopyright, "export-3mf/meta-data-copyright=" \o b.MetadataCopyright[1])
    ELSE <<>>

\* Mutant: the tokens of every bag are emitted, whatever the format.
buildExportOptions_AllBags(req) ==
    pngOptions(req.Options.PNG) \o stlOptions(req.Options.STL)
    \o svgOptions(req.Options.SVG) \o pdfOptions(req.Options.PDF)
    \o threeMFOptions(req.Options.ThreeMF)

buildExportOptions(req) ==
    CASE req.Format = "png" -> pngOptions(req.Options.PNG)
      [] req.Format \in {"stl_binary", "stl_ascii"} -> stlOptions(req.Options.STL)
      [] req.Format = "svg" -> svgOptions(req.Options.SVG)
      [] req.Format = "pdf" -> pdfOptions(req.Options.PDF)
      [] req.Format = "3mf" -> threeMFOptions(req.Options.ThreeMF)
      [] OTHER -> <<>>

\* ------------------------------------------------------- request bodies
NoOptions == [PNG |-> None, STL |-> None, SVG |-> None, PDF |-> None, ThreeMF |-> None]

\* One bag per family, as examples/README.md uses them.
SampleOptions ==
    [PNG |-> Some([Width |-> Some(1024), Height |-> None]),
     STL |-> Some([DecimalPrecision |-> Some(17)]),
     SVG |-> Some([Fill |-> Some(TRUE), FillColor |-> None, Stroke |-> None,
                   StrokeColor |-> Some("black"), StrokeWidth |-> Some([m |-> 35, e |-> 2])]),
     PDF |-> Some([PaperSize |-> Some("a4"), Orientation |-> None, ShowGrid |-> Some(FALSE),
                   GridSize |-> Some([m |-> 10, e |-> 0]), Fill |-> None, FillColor |-> None,
                   Stroke |-> None, StrokeColor |-> None, StrokeWidth |-> None]),
     ThreeMF |-> Some([Unit |-> Some("millimeter"), DecimalPrecision |-> Some(6),
                       Color |-> None, ColorMode |-> None, MaterialType |-> None,
                       AddMetadata |-> Some(TRUE), MetadataTitle |-> None,
                       MetadataDesigner |-> None, MetadataDesc |-> None,
                       MetadataCopyright |-> None])]

\* A bag in every family, each with fields that give tokens.
FullOptions ==
    [PNG |-> Some([Width |-> Some(1024), Height |-> Some(768)]),
     STL |-> Some([DecimalPrecision |-> Some(8)]),
     SVG |-> Some([Fill |-> Some(TRUE), FillColor |-> Some("red"), Stroke |-> None,
                   StrokeColor |-> None, StrokeWidth |-> None]),
     PDF |-> Some([PaperSize |-> Some("a3"), Orientation |-> Some("landscape"),
                   ShowGrid |-> Some(TRUE), GridSize |-> None, Fill |-> None,
                   FillColor |-> None, Stroke |-> None, StrokeColor |-> None,
                   StrokeWidth |-> None]),
     ThreeMF |-> Some([Unit |-> Some("centimeter"), DecimalPrecision |-> Some(8),
                       Color |-> Some("#ff0000"), ColorMode |-> Some("model"),
                       MaterialType |-> None, AddMetadata |-> Some(TRUE),
                       MetadataTitle |-> Some("Test Model"), MetadataDesigner |-> None,
                       MetadataDesc |-> None, MetadataCopyright |-> None])]

\* The formats of examples/README.md, and two that no revision knows.
DocumentedFormats ==
    {"png", "stl_binary", "stl_ascii", "svg", "pdf", "3mf", "webp", "avif"}
RequestFormats == DocumentedFormats \cup {"invalid_format", "jpeg"}

\* summary_type is passed through unchecked: the documented kinds, an
\* unknown one and one that is an absolute path of an existing directory.
SummaryTypes ==
    {Str("all"), Str("geometry"), Str("bogus"),
     [text |-> "/etc/passwd", dir |-> "/etc", base |-> "passwd"]}

\* An HTTP body: json says whether it is well-formed JSON; a field of the
\* JSON object is absent (None) or present.
Body(ep, js, content, format, stype, opts) ==
    [endpoint |-> ep, json |-> js, scad_content |-> content, format |-> format,
     summary_type |-> stype, options |-> opts]

ExportBodies ==
    {Body("export", FALSE, None, None, None, NoOptions)}
    \cup {Body("export", TRUE, sc, Some("png"), None, NoOptions) : sc \in {None, Some("")}}
    \cup {Body("export", TRUE, Some(ScadText), f, None, NoOptions) : f \in {None, Some("")}}
    \cup {Body("export", TRUE, Some(ScadText), Some(f), None, o) :
            f \in RequestFormats, o \in {NoOptions, SampleOptions}}

SummaryBodies ==
    {Body("summary", FALSE, None, None, None, NoOptions)}
    \cup {Body("summary", TRUE, sc, None, Some(Str("all")), NoOptions) : sc \in {None, Some("")}}
    \cup {Body("summary", TRUE, Some(ScadText), None, st, NoOptions) :
            st \in {None, Some(Str(""))} \cup {Some(t) : t \in SummaryTypes}}

Bodies == ExportBodies \cup SummaryBodies

\* The bodies of the interleaved specification: one export, one summary.
ConcBodies ==
    {Body("export", TRUE, Some(ScadText), Some("png"), None, NoOptions),
     Body("summary", TRUE, Some(ScadText), None, None, NoOptions)}

\* --------------------------------------------------------- gin binding
\* encoding/json leaves an absent field at its zero value.
OrZero(field, zero) == IF IsSome(field) THEN Get(field) ELSE zero

\* Mutant: the required tag is not enforced.
Required_Any(v, zero) == TRUE

\* The `binding:"required"` tag rejects the zero value.
Required(v, zero) == v # zero

\* c.ShouldBindJSON(&req) for models.ExportRequest / models.SummaryRequest:
\* the decoded request and the binding error.
ShouldBindJSON(b) ==
    LET r == [endpoint |-> b.endpoint,
              ScadContent |-> OrZero(b.scad_content, ""),
              Format |-> OrZero(b.format, ""),
              SummaryType |-> OrZero(b.summary_type, Str("")),
              Options |-> b.options]
        err == IF ~b.json THEN Errorf("invalid character 'i' looking for beginning of value")
               ELSE IF ~Required(r.ScadContent, "")
                    THEN Errorf("Field validation for 'ScadContent' failed on the 'required' tag")
               ELSE IF b.endpoint = "export" /\ ~Required(r.Format, "")
                    THEN Errorf("Field validation for 'Format' failed on the 'required' tag")
               ELSE NilErr
    IN  [req |-> r, err |-> err]

\* ---------------------------------------------------------------- state
VARIABLES
    rev,      \* the revision of services/convert.go that is built
    pc,       \* pc[c]: where call c stands
    body,     \* body[c]: the HTTP body received
    req,      \* req[c]: the bound request
    tmpDir,   \* tmpDir[c]: the staging directory of the call, "" before MkdirTemp
    args,     \* args[c]: the argument list handed to executeCommand
    cwd,      \* cwd[c]: the working directory the child was started in
    proc,     \* proc[c]: the child process, [state, code]
    ctxErr,   \* ctxErr[c]: ctx.Err() of executeCommand's context
    runErr,   \* runErr[c]: what cmd.Run() returned
    out,      \* out[c]: [stdout, stderr] the child wrote, [buf] the buffer captured
    ret,      \* ret[c]: what the service returned
    resp,     \* resp[c]: the HTTP response
    fs,       \* the staging directories that exist, each with its files
    steps     \* steps[c]: the call's file-system and process events, in order

vars == <<rev, pc, body, req, tmpDir, args, cwd, proc, ctxErr, runErr, out, ret, resp, fs, steps>>

NoBody == [endpoint |-> "", json |-> FALSE, scad_content |-> None, format |-> None,
           summary_type |-> None, options |-> NoOptions]
NoReq == [endpoint |-> "", ScadContent |-> "", Format |-> "", SummaryType |-> Str(""),
          Options |-> NoOptions]
NoProc == [state |-> "none", code |-> -1]
NoOut == [stdout |-> "", stderr |-> "", buf |-> ""]
NoRet == [data |-> "", contentType |-> "", summary |-> None, err |-> NilErr]
NoResp == [status |-> 0, contentType |-> "", data |-> "", error |-> "", message |-> "",
           summary |-> None]

Init ==
    /\ rev \in Revs
    /\ pc = [c \in Calls |-> "idle"]
    /\ body = [c \in Calls |-> NoBody]
    /\ req = [c \in Calls |-> NoReq]
    /\ tmpDir = [c \in Calls |-> ""]
    /\ args = [c \in Calls |-> <<>>]
    /\ cwd = [c \in Calls |-> ""]
    /\ proc = [c \in Calls |-> NoProc]
    /\ ctxErr = [c \in Calls |-> "nil"]
    /\ runErr = [c \in Calls |-> NilErr]
    /\ out = [c \in Calls |-> NoOut]
    /\ ret = [c \in Calls |-> NoRet]
    /\ resp = [c \in Calls |-> NoResp]
    /\ fs = << >>
    /\ steps = [c \in Calls |-> <<>>]

\* ------------------------------------------------------------ file system
\* Directories that exist apart from the staging directories.
SystemDirs == {"/", "/tmp", "/etc", "/app"}
\* The service's own working directory.
ServiceWorkDir == "/app"

DirExists(d) == d \in SystemDirs \/ d \in DOMAIN fs
FileExists(p) == p.dir \in DOMAIN fs /\ p.base \in DOMAIN fs[p.dir]

\* fs with file p holding content (the directory must exist)
PutFile(f, p, content) ==
    [f EXCEPT ![p.dir] = [n \in DOMAIN f[p.dir] \cup {p.base} |->
                            IF n = p.base THEN content ELSE f[p.dir][n]]]

\* fs without directory d and everything below it
RemoveDir(f, d) == [x \in DOMAIN f \ {d} |-> f[x]]

\* fs with the new empty directory d
AddDir(f, d) == [x \in DOMAIN f \cup {d} |-> IF x = d THEN << >> ELSE f[x]]

\* The names os.MkdirTemp("", prefix-*) can produce.
TempNames(prefix) == {"/tmp/" \o prefix \o ToString(n) : n \in 1..MaxDirs}

Prefix(endpoint) == IF endpoint = "export" THEN "scad-export-" ELSE "scad-summary-"

\* ---------------------------------------------------------------- handler
\* The JSON error bodies of handlers.go.
ErrorResponse(status, error, message) ==
    [status |-> status, contentType |-> "application/json", data |-> "",
     error |-> error, message |-> message, summary |-> None]

\* Handler.Export / Handler.Summary up to the call of the service: bind the
\* body, answer 400 when it does not bind, invoke the service otherwise.
HandlerBind(c, b) ==
    /\ pc[c] = "idle"
    /\ body' = [body EXCEPT ![c] = b]
    /\ LET bound == ShouldBindJSON(b)
       IN  IF ~bound.err.nil
           THEN /\ resp' = [resp EXCEPT ![c] =
                              ErrorResponse(400, "invalid request", bound.err.msg)]
                /\ pc' = [pc EXCEPT ![c] = "responded"]
                /\ req' = req
                /\ UNCHANGED steps
           ELSE /\ req' = [req EXCEPT ![c] = bound.req]
                /\ pc' = [pc EXCEPT ![c] =
                            IF b.endpoint = "export" THEN "validate" ELSE "mkdir"]
                /\ steps' = [steps EXCEPT ![c] = Append(@, "invoke")]
                /\ resp' = resp
    /\ UNCHANGED <<rev, tmpDir, args, cwd, proc, ctxErr, runErr, out, ret, fs>>

\* event e is among the events of call c
Did(c, e) == \E i \in 1..Len(steps[c]) : steps[c][i] = e

\* ---------------------------------------------------------------- service
\* Mutant: Summary registers no deferred RemoveAll either.
HasDefer_ExportOnly(r, endpoint) == endpoint = "export" /\ r = 2

\* Export of revision 2 and Summary of both revisions register the deferred
\* os.RemoveAll(tmpDir) right after MkdirTemp; Export of revision 1 has none.
HasDefer(r, endpoint) == endpoint = "summary" \/ r = 2

\* Where a call goes when the service function returns after MkdirTemp.
OnReturn(c) == IF HasDefer(rev, req[c].endpoint) THEN "cleanup" ELSE "returned"

Fail(m) == [NoRet EXCEPT !.err = Errorf(m)]

\* Export: s.validateFormat(req.Format), before anything else.
ExportValidate(c) ==
    /\ pc[c] = "validate"
    /\ LET err == validateFormat(req[c].Format)
       IN  IF ~err.nil
           THEN /\ ret' = [ret EXCEPT ![c] = [NoRet EXCEPT !.err = err]]
                /\ pc' = [pc EXCEPT ![c] = "returned"]
           ELSE /\ pc' = [pc EXCEPT ![c] = "mkdir"]
                /\ ret' = ret
    /\ UNCHANGED <<rev, body, req, tmpDir, args, cwd, proc, ctxErr, runErr, out, resp, fs, steps>>

\* Mutant: the staging directory has a fixed name and is made with MkdirAll.
MkdirTemp_FixedName(c) ==
    /\ pc[c] = "mkdir"
    /\ LET d == "/tmp/" \o Prefix(req[c].endpoint) \o "1"
       IN  /\ fs' = IF d \in DOMAIN fs THEN fs ELSE AddDir(fs, d)
           /\ tmpDir' = [tmpDir EXCEPT ![c] = d]
    /\ steps' = [steps EXCEPT ![c] = Append(@, "mkdir")]
    /\ pc' = [pc EXCEPT ![c] = "write"]
    /\ UNCHANGED <<rev, body, req, args, cwd, proc, ctxErr, runErr, out, ret, resp>>

\* os.MkdirTemp("", "scad-export-*" / "scad-summary-*"): a directory that
\* did not exist, or an error.
MkdirTemp(c) ==
    /\ pc[c] = "mkdir"
    /\ \/ \E d \in TempNames(Prefix(req[c].endpoint)) \ DOMAIN fs :
            /\ fs' = AddDir(fs, d)
            /\ tmpDir' = [tmpDir EXCEPT ![c] = d]
            /\ steps' = [steps EXCEPT ![c] = Append(@, "mkdir")]
            /\ pc' = [pc EXCEPT ![c] = "write"]
            /\ ret' = ret
       \/ /\ ret' = [ret EXCEPT ![c] =
                       Fail("failed to create temp directory: mkdir /tmp: no space left on device")]
          /\ pc' = [pc EXCEPT ![c] = "returned"]
          /\ UNCHANGED <<fs, tmpDir, steps>>
    /\ UNCHANGED <<rev, body, req, args, cwd, proc, ctxErr, runErr, out, resp>>

\* os.WriteFile(scadFile, req.ScadContent, 0644)
WriteFile(c) ==
    /\ pc[c] = "write"
    /\ \/ /\ fs' = PutFile(fs, Join(tmpDir[c], "input.scad"), req[c].ScadContent)
          /\ steps' = [steps EXCEPT ![c] = Append(@, "write")]
          /\ pc' = [pc EXCEPT ![c] = "exec"]
          /\ ret' = ret
       \/ /\ ret' = [ret EXCEPT ![c] =
                       Fail("failed to write SCAD file: write input.scad: no space left on device")]
          /\ pc' = [pc EXCEPT ![c] = OnReturn(c)]
          /\ UNCHANGED <<fs, steps>>
    /\ UNCHANGED <<rev, body, req, tmpDir, args, cwd, proc, ctxErr, runErr, out, resp>>

\* The output file of Export and the summary file of Summary.
OutputFile(c) ==
    IF req[c].endpoint = "export"
    THEN Join(tmpDir[c], "output." \o getOutputExtension(req[c].Format)[1])
    ELSE Join(tmpDir[c], "summary.json")

\* Export's argument list.
ExportArgs(r, request, dir) ==
    LET ext == getOutputExtension(request.Format)
        outputFile == Join(dir, "output." \o ext[1])
        first == IF r = 1 THEN <<Str("--debug=all"), Str("-o"), outputFile>>
                 ELSE <<Str("-o"), outputFile>>
        fmt == IF ext[2] # "" THEN <<Str("--export-format"), Str(ext[2])>> ELSE <<>>
    IN  first \o fmt \o buildExportOptions(request) \o <<Join(dir, "input.scad")>>

\* Mutant: Summary passes summary_type as it is, empty or not.
SummaryArgs_NoDefault(request, dir) ==
    <<Str("--summary"), request.SummaryType,
      Str("--summary-file"), Join(dir, "summary.json"),
      Str("-o"), Join(dir, "dummy.stl"),
      Join(dir, "input.scad")>>

\* Summary's argument list.
SummaryArgs(request, dir) ==
    LET summaryType == IF request.SummaryType = Str("") THEN Str("all")
                       ELSE request.SummaryType
    IN  <<Str("--summary"), summaryType,
          Str("--summary-file"), Join(dir, "summary.json"),
          Str("-o"), Join(dir, "dummy.stl"),
          Join(dir, "input.scad")>>

\* cmd.Dir as executeCommand sets it: revision 1 takes the directory of the
\* first absolute argument whose directory exists, revision 2 sets none.
\* An empty cmd.Dir starts the child in the service's working directory.
RECURSIVE FirstAbsDir(_)
FirstAbsDir(a) ==
    IF a = <<>> THEN ""
    ELSE IF IsAbs(Head(a)) /\ DirExists(Dir(Head(a))) THEN Dir(Head(a))
    ELSE FirstAbsDir(Tail(a))

CmdDir(r, a) == IF r = 1 THEN FirstAbsDir(a) ELSE ""

WorkDir(r, a) == IF CmdDir(r, a) = "" THEN ServiceWorkDir ELSE CmdDir(r, a)

\* ----------------------------------------------------- the child process
JSONNULL == "null"
ChildContents == {PNG1, MESH1, JSONOBJ, JSONARR, JSONNULL, GARBAGE}

\* What the external tool can do before it exits on its own: its exit code,
\* the file it leaves at its output path (None: no file), and its output.
ChildOutcomes ==
    {[code |-> 0, file |-> f, stdout |-> "ECHO: done", stderr |-> "Geometries in cache: 1"] :
        f \in {None} \cup {Some(x) : x \in ChildContents}}
    \cup {[code |-> 1, file |-> f, stdout |-> "ECHO: partial", stderr |-> "ERROR: syntax error"] :
        f \in {None, Some(GARBAGE)}}

\* What a child killed by the deadline can have done until then.
KilledOutcomes ==
    {[code |-> -1, file |-> f, stdout |-> "ECHO: partial", stderr |-> ""] :
        f \in {None, Some(GARBAGE)}}

\* The path the tool writes its result to: the value of --summary-file when
\* given, else the value of -o.
RECURSIVE ValueOf(_, _)
ValueOf(a, flag) ==
    IF Len(a) < 2 THEN Str("")
    ELSE IF a[1] = Str(flag) THEN a[2]
    ELSE ValueOf(Tail(a), flag)

ChildTarget(a) ==
    IF ValueOf(a, "--summary-file") # Str("") THEN ValueOf(a, "--summary-file")
    ELSE ValueOf(a, "-o")

\* fs after the child left file content o.file at its target
ChildWrites(f, a, o) ==
    IF IsSome(o.file) /\ ChildTarget(a).dir \in DOMAIN f
    THEN PutFile(f, ChildTarget(a), Get(o.file))
    ELSE f

\* What the buffers of executeCommand hold of the child's output: revision 1
\* points Stdout and Stderr at one buffer, revision 2 captures Stderr only.
Captured(r, o) == IF r = 1 THEN o.stdout \o o.stderr ELSE o.stderr

\* ------------------------------------------------------- executeCommand
\* context.WithTimeout, exec.CommandContext, cmd.Dir and the start of
\* cmd.Run(): the child runs, or it could not be started.
ExecStart(c) ==
    /\ pc[c] = "exec"
    /\ LET a == IF req[c].endpoint = "export" THEN ExportArgs(rev, req[c], tmpDir[c])
                ELSE SummaryArgs(req[c], tmpDir[c])
       IN  /\ args' = [args EXCEPT ![c] = a]
           /\ cwd' = [cwd EXCEPT ![c] = WorkDir(rev, a)]
    /\ \/ /\ proc' = [proc EXCEPT ![c] = [state |-> "running", code |-> -1]]
          /\ steps' = [steps EXCEPT ![c] = Append(@, "spawn")]
          /\ pc' = [pc EXCEPT ![c] = "wait"]
          /\ runErr' = runErr
       \/ /\ runErr' = [runErr EXCEPT ![c] =
                          Errorf("exec: \"openscad\": executable file not found in $PATH")]
          /\ pc' = [pc EXCEPT ![c] = "classify"]
          /\ UNCHANGED <<proc, steps>>
    /\ UNCHANGED <<rev, body, req, tmpDir, ctxErr, out, ret, resp, fs>>

\* The child exits on its own; cmd.Run() returns.
ChildExit(c, o) ==
    /\ pc[c] = "wait"
    /\ proc[c].state = "running"
    /\ proc' = [proc EXCEPT ![c] = [state |-> "exited", code |-> o.code]]
    /\ fs' = ChildWrites(fs, args[c], o)
    /\ out' = [out EXCEPT ![c] =
                 [stdout |-> o.stdout, stderr |-> o.stderr, buf |-> Captured(rev, o)]]
    /\ runErr' = [runErr EXCEPT ![c] =
                    IF o.code = 0 THEN NilErr ELSE Errorf("exit status " \o ToString(o.code))]
    /\ steps' = [steps EXCEPT ![c] = Append(@, "exited")]
    /\ pc' = [pc EXCEPT ![c] = "classify"]
    /\ UNCHANGED <<rev, body, req, tmpDir, args, cwd, ctxErr, ret, resp>>

\* Mutant: the command is not bound to the context (exec.Command), so the
\* deadline passes and the child keeps running.
DeadlineKill_NoKill(c, o) ==
    /\ pc[c] = "wait"
    /\ proc[c].state = "running"
    /\ ctxErr[c] = "nil"
    /\ ctxErr' = [ctxErr EXCEPT ![c] = "DeadlineExceeded"]
    /\ UNCHANGED <<rev, pc, body, req, tmpDir, args, cwd, proc, runErr, out, ret, resp, fs, steps>>

\* The deadline of the context passes while the child runs:
\* exec.CommandContext kills the child and cmd.Run() returns.
DeadlineKill(c, o) ==
    /\ pc[c] = "wait"
    /\ proc[c].state = "running"
    /\ ctxErr[c] = "nil"
    /\ ctxErr' = [ctxErr EXCEPT ![c] = "DeadlineExceeded"]
    /\ proc' = [proc EXCEPT ![c] = [state |-> "killed", code |-> -1]]
    /\ fs' = ChildWrites(fs, args[c], o)
    /\ out' = [out EXCEPT ![c] =
                 [stdout |-> o.stdout, stderr |-> o.stderr, buf |-> Captured(rev, o)]]
    /\ runErr' = [runErr EXCEPT ![c] = Errorf("signal: killed")]
    /\ steps' = [steps EXCEPT ![c] = Append(@, "killed")]
    /\ pc' = [pc EXCEPT ![c] = "classify"]
    /\ UNCHANGED <<rev, body, req, tmpDir, args, cwd, ret, resp>>

\* The deadline passes after cmd.Run() has returned and before
\* executeCommand reads ctx.Err(): only ctx.Err() changes.
DeadlineLate(c) ==
    /\ pc[c] = "classify"
    /\ ctxErr[c] = "nil"
    /\ ctxErr' = [ctxErr EXCEPT ![c] = "DeadlineExceeded"]
    /\ UNCHANGED <<rev, pc, body, req, tmpDir, args, cwd, proc, runErr, out, ret, resp, fs, steps>>

\* Whether executeCommand takes its error branch: revision 1 tests
\* err != nil || ExitCode() != 0, revision 2 tests err != nil.
RunFailed(r, err, code) == IF r = 1 THEN ~err.nil \/ code # 0 ELSE ~err.nil

\* Mutant: ctx.Err() is not consulted, every failure is the generic one.
CommandError_NoTimeout(r, err, state, ctx, buf) ==
    LET code == IF state.state = "exited" THEN state.code ELSE -1
    IN  IF RunFailed(r, err, code)
        THEN Errorf("openscad command failed: " \o err.msg \o ", output: " \o buf)
        ELSE NilErr

\* The error executeCommand returns.
\* ProcessState.ExitCode() is -1 while there is no exited process.
CommandError(r, err, state, ctx, buf) ==
    LET code == IF state.state = "exited" THEN state.code ELSE -1
    IN  IF RunFailed(r, err, code)
        THEN IF ctx = "DeadlineExceeded"
             THEN Errorf("openscad command timed out")
             ELSE IF r = 1
                  THEN Errorf("openscad command failed: " \o err.msg \o ", output: " \o buf)
                  ELSE Errorf("openscad command failed: " \o err.msg \o ", stderr: " \o buf)
        ELSE NilErr

\* Mutant: a failed command is run a second time.
Classify_Retry(c) ==
    /\ pc[c] = "classify"
    /\ LET err == CommandError(rev, runErr[c], proc[c], ctxErr[c], out[c].buf)
       IN  IF ~err.nil
           THEN IF Len(steps[c]) < 6
                THEN /\ pc' = [pc EXCEPT ![c] = "exec"]
                     /\ ret' = ret
                ELSE /\ ret' = [ret EXCEPT ![c] = [NoRet EXCEPT !.err = err]]
                     /\ pc' = [pc EXCEPT ![c] = OnReturn(c)]
           ELSE /\ pc' = [pc EXCEPT ![c] = "read"]
                /\ ret' = ret
    /\ UNCHANGED <<rev, body, req, tmpDir, args, cwd, proc, ctxErr, runErr, out, resp, fs, steps>>

\* Mutant: the error of executeCommand is dropped and the file is read.
Classify_ReadOnFailure(c) ==
    /\ pc[c] = "classify"
    /\ pc' = [pc EXCEPT ![c] = "read"]
    /\ UNCHANGED <<rev, body, req, tmpDir, args, cwd, proc, ctxErr, runErr, out, ret, resp, fs, steps>>

\* The rest of executeCommand, and the caller's `if err != nil { return }`.
Classify(c) ==
    /\ pc[c] = "classify"
    /\ LET err == CommandError(rev, runErr[c], proc[c], ctxErr[c], out[c].buf)
       IN  IF ~err.nil
           THEN /\ ret' = [ret EXCEPT ![c] = [NoRet EXCEPT !.err = err]]
                /\ pc' = [pc EXCEPT ![c] = OnReturn(c)]
           ELSE /\ pc' = [pc EXCEPT ![c] = "read"]
                /\ ret' = ret
    /\ UNCHANGED <<rev, body, req, tmpDir, args, cwd, proc, ctxErr, runErr, out, resp, fs, steps>>

\* ------------------------------------------------ reading the result
\* Mutant: a missing or unreadable file reads as no bytes and no error.
ReadFile_EmptyOnFailure(f, p, ioOK) ==
    IF ~(p.dir \in DOMAIN f /\ p.base \in DOMAIN f[p.dir]) \/ ~ioOK
    THEN [data |-> "", err |-> NilErr]
    ELSE [data |-> f[p.dir][p.base], err |-> NilErr]

\* os.ReadFile(p): the bytes, or an error when the file is missing or the
\* read fails (ioOK = FALSE).
ReadFile(f, p, ioOK) ==
    IF ~(p.dir \in DOMAIN f /\ p.base \in DOMAIN f[p.dir])
    THEN [data |-> "", err |-> Errorf("open " \o p.text \o ": no such file or directory")]
    ELSE IF ~ioOK
    THEN [data |-> "", err |-> Errorf("read " \o p.text \o ": input/output error")]
    ELSE [data |-> f[p.dir][p.base], err |-> NilErr]

\* json.Unmarshal(data, &summary) for summary map[string]interface{}: an
\* object gives its entries, null leaves the map nil, anything else fails.
Unmarshal(data) ==
    CASE data = JSONOBJ ->
           [summary |-> [nil |-> FALSE, entries |-> {<<"geometry", "{\"facets\":6}">>}],
            err |-> NilErr]
      [] data = JSONNULL ->
           [summary |-> [nil |-> TRUE, entries |-> {}], err |-> NilErr]
      [] data = JSONARR ->
           [summary |-> [nil |-> TRUE, entries |-> {}],
            err |-> Errorf("json: cannot unmarshal array into Go value of type map[string]interface {}")]
      [] OTHER ->
           [summary |-> [nil |-> TRUE, entries |-> {}],
            err |-> Errorf("invalid character looking for beginning of value")]

\* Export after executeCommand: read the output file, attach the content type.
ExportResult(request, read) ==
    IF ~read.err.nil
    THEN Fail("failed to read output file: " \o read.err.msg)
    ELSE [NoRet EXCEPT !.data = read.data,
                       !.contentType = getContentType(request.Format)]

\* Summary after executeCommand: read the summary file, parse it.
SummaryResult(read) ==
    IF ~read.err.nil
    THEN Fail("failed to read summary file: " \o read.err.msg)
    ELSE LET parsed == Unmarshal(read.data)
         IN  IF ~parsed.err.nil
             THEN Fail("failed to parse summary JSON: " \o parsed.err.msg)
             ELSE [NoRet EXCEPT !.summary = Some(parsed.summary)]

ReadOutput(c, ioOK) ==
    /\ pc[c] = "read"
    /\ LET read == ReadFile(fs, OutputFile(c), ioOK)
       IN  ret' = [ret EXCEPT ![c] =
                     IF req[c].endpoint = "export" THEN ExportResult(req[c], read)
                     ELSE SummaryResult(read)]
    /\ steps' = [steps EXCEPT ![c] = Append(@, "read")]
    /\ pc' = [pc EXCEPT ![c] = OnReturn(c)]
    /\ UNCHANGED <<rev, body, req, tmpDir, args, cwd, proc, ctxErr, runErr, out, resp, fs>>

\* Mutant: a failure of the deferred RemoveAll replaces the returned value.
Cleanup_ReturnsError(c, ok) ==
    /\ pc[c] = "cleanup"
    /\ fs' = IF ok THEN RemoveDir(fs, tmpDir[c]) ELSE fs
    /\ ret' = IF ok THEN ret
              ELSE [ret EXCEPT ![c] = Fail("failed to remove temp directory")]
    /\ steps' = [steps EXCEPT ![c] = Append(@, IF ok THEN "remove" ELSE "removefail")]
    /\ pc' = [pc EXCEPT ![c] = "returned"]
    /\ UNCHANGED <<rev, body, req, tmpDir, args, cwd, proc, ctxErr, runErr, out, resp>>

\* The deferred os.RemoveAll(tmpDir): a failure is written to stderr and
\* the value being returned stays as it is.
Cleanup(c, ok) ==
    /\ pc[c] = "cleanup"
    /\ fs' = IF ok THEN RemoveDir(fs, tmpDir[c]) ELSE fs
    /\ steps' = [steps EXCEPT ![c] = Append(@, IF ok THEN "remove" ELSE "removefail")]
    /\ pc' = [pc EXCEPT ![c] = "returned"]
    /\ UNCHANGED <<rev, body, req, tmpDir, args, cwd, proc, ctxErr, runErr, out, ret, resp>>

\* ------------------------------------------------------ handler: answer
\* Mutant: every service error is answered 500.
ExportResponse_Always500(request, r) ==
    IF ~r.err.nil
    THEN ErrorResponse(500, "export failed", r.err.msg)
    ELSE [NoResp EXCEPT !.status = 200, !.contentType = r.contentType, !.data = r.data]

\* Handler.Export after the service returned.
ExportResponse(request, r) ==
    IF ~r.err.nil
    THEN ErrorResponse(IF r.err.msg = "unsupported format: " \o request.Format
                       THEN 400 ELSE 500,
                       "export failed", r.err.msg)
    ELSE [NoResp EXCEPT !.status = 200, !.contentType = r.contentType, !.data = r.data]

\* Mutant: a service error is answered 400, as a binding error is.
SummaryResponse_400(r) ==
    IF ~r.err.nil
    THEN ErrorResponse(400, "summary generation failed", r.err.msg)
    ELSE [NoResp EXCEPT !.status = 200, !.contentType = "application/json",
                        !.summary = r.summary]

\* Handler.Summary after the service returned.
SummaryResponse(r) ==
    IF ~r.err.nil
    THEN ErrorResponse(500, "summary generation failed", r.err.msg)
    ELSE [NoResp EXCEPT !.status = 200, !.contentType = "application/json",
                        !.summary = r.summary]

Respond(c) ==
    /\ pc[c] = "returned"
    /\ resp' = [resp EXCEPT ![c] =
                  IF req[c].endpoint = "export" THEN ExportResponse(req[c], ret[c])
                  ELSE SummaryResponse(ret[c])]
    /\ pc' = [pc EXCEPT ![c] = "responded"]
    /\ UNCHANGED <<rev, body, req, tmpDir, args, cwd, proc, ctxErr, runErr, out, ret, fs, steps>>

\* ------------------------------------------------------- specifications
\* The steps of a call once its request is bound.
Step(c) ==
    \/ ExportValidate(c)
    \/ MkdirTemp(c)
    \/ WriteFile(c)
    \/ ExecStart(c)
    \/ \E o \in ChildOutcomes : ChildExit(c, o)
    \/ \E o \in KilledOutcomes : DeadlineKill(c, o)
    \/ DeadlineLate(c)
    \/ Classify(c)
    \/ \E ioOK \in BOOLEAN : ReadOutput(c, ioOK)
    \/ \E ok \in BOOLEAN : Cleanup(c, ok)
    \/ Respond(c)

\* One request, with every body.
Receive ==
    \E b \in Bodies : HandlerBind(1, b)

Next ==
    \/ Receive
    \/ \E c \in Calls : Step(c)

Spec == Init /\ [][Next]_vars

\* NumCalls requests whose steps interleave, with the bodies of ConcBodies.
ReceiveConc ==
    \E c \in Calls : \E b \in ConcBodies : HandlerBind(c, b)

NextConc ==
    \/ ReceiveConc
    \/ \E c \in Calls : Step(c)

SpecConc == Init /\ [][NextConc]_vars

\* The interleaved calls with the file system in view, up to the return of
\* the service: the child leaves its file and exits with status 0, or exits
\* with status 1 and no file; the removal works or fails.
SharedOutcomes ==
    {o \in ChildOutcomes : (o.code = 0 /\ o.file = Some(JSONOBJ)) \/ (o.code = 1 /\ o.file = None)}

StepShared(c) ==
    \/ ExportValidate(c)
    \/ MkdirTemp(c)
    \/ WriteFile(c)
    \/ ExecStart(c)
    \/ \E o \in SharedOutcomes : ChildExit(c, o)
    \/ Classify(c)
    \/ ReadOutput(c, TRUE)
    \/ \E ok \in BOOLEAN : Cleanup(c, ok)

NextShared ==
    \/ ReceiveConc
    \/ \E c \in Calls : StepShared(c)

SpecShared == Init /\ [][NextShared]_vars

\* The scheduled steps of a call: everything but the child's own exit and
\* the deadline.
ServiceStep(c) ==
    \/ ExportValidate(c)
    \/ MkdirTemp(c)
    \/ WriteFile(c)
    \/ ExecStart(c)
    \/ Classify(c)
    \/ \E ioOK \in BOOLEAN : ReadOutput(c, ioOK)
    \/ \E ok \in BOOLEAN : Cleanup(c, ok)
    \/ Respond(c)

\* The goroutine of a request keeps being scheduled and the timer of the
\* context fires; the child itself may never exit.
FairSpec ==
    /\ Spec
    /\ \A c \in Calls : WF_vars(ServiceStep(c))
    /\ \A c \in Calls : WF_vars(\E o \in KilledOutcomes : DeadlineKill(c, o))

\* ------------------------------------------- the helpers, called directly
\* The option bags of models.ExportOptions a request can carry: every
\* combination of present and absent fields, S being the fields present.
Pick(S, field, v) == IF field \in S THEN Some(v) ELSE None

PrecisionValues == {-1, 0, 1, 8, 16, 17}

PNGBags ==
    {None} \cup {Some([Width |-> w, Height |-> h]) :
                    w \in {None, Some(1024), Some(640)}, h \in {None, Some(768)}}

STLBags ==
    {None, Some([DecimalPrecision |-> None])}
    \cup {Some([DecimalPrecision |-> Some(p)]) : p \in PrecisionValues}

SVGFields == <<"Fill", "FillColor", "Stroke", "StrokeColor", "StrokeWidth">>

SVGBag(S, b) ==
    [Fill |-> Pick(S, "Fill", b), FillColor |-> Pick(S, "FillColor", "red"),
     Stroke |-> Pick(S, "Stroke", ~b), StrokeColor |-> Pick(S, "StrokeColor", "black"),
     StrokeWidth |-> Pick(S, "StrokeWidth", [m |-> 35, e |-> 2])]

SVGBags ==
    {None} \cup {Some(SVGBag(S, b)) :
                    S \in SUBSET {SVGFields[i] : i \in DOMAIN SVGFields}, b \in BOOLEAN}

PDFFields == <<"PaperSize", "Orientation", "ShowGrid", "GridSize", "Fill", "FillColor",
               "Stroke", "StrokeColor", "StrokeWidth">>

PDFBag(S, b) ==
    [PaperSize |-> Pick(S, "PaperSize", "a3"),
     Orientation |-> Pick(S, "Orientation", "landscape"),
     ShowGrid |-> Pick(S, "ShowGrid", b),
     GridSize |-> Pick(S, "GridSize", [m |-> 10, e |-> 0]),
     Fill |-> Pick(S, "Fill", ~b), FillColor |-> Pick(S, "FillColor", "blue"),
     Stroke |-> Pick(S, "Stroke", b), StrokeColor |-> Pick(S, "StrokeColor", "black"),
     StrokeWidth |-> Pick(S, "StrokeWidth", [m |-> 15, e |-> 1])]

PDFBags ==
    {None} \cup {Some(PDFBag(S, b)) :
                    S \in SUBSET {PDFFields[i] : i \in DOMAIN PDFFields}, b \in BOOLEAN}

ThreeMFFields == <<"Unit", "DecimalPrecision", "Color", "ColorMode", "MaterialType",
                   "AddMetadata", "MetadataTitle", "MetadataDesigner", "MetadataDesc",
                   "MetadataCopyright">>

ThreeMFBag(S, p) ==
    [Unit |-> Pick(S, "Unit", "centimeter"),
     DecimalPrecision |-> Pick(S, "DecimalPrecision", p),
     Color |-> Pick(S, "Color", "#ff0000"), ColorMode |-> Pick(S, "ColorMode", "model"),
     MaterialType |-> Pick(S, "MaterialType", "basematerial"),
     AddMetadata |-> Pick(S, "AddMetadata", TRUE),
     MetadataTitle |-> Pick(S, "MetadataTitle", "Test Model"),
     MetadataDesigner |-> Pick(S, "MetadataDesigner", "me"),
     MetadataDesc |-> Pick(S, "MetadataDesc", "a cube"),
     MetadataCopyright |-> Pick(S, "MetadataCopyright", "2024")]

ThreeMFBags ==
    {None} \cup {Some(ThreeMFBag(S, p)) :
                    S \in SUBSET {ThreeMFFields[i] : i \in DOMAIN ThreeMFFields},
                    p \in PrecisionValues}

\* The option bag a format reads (examples/README.md), "" when it reads none.
Family(format) ==
    CASE format \in {"png", "webp", "avif"} -> "PNG"
      [] format \in {"stl_binary", "stl_ascii"} -> "STL"
      [] format = "svg" -> "SVG"
      [] format = "pdf" -> "PDF"
      [] format = "3mf" -> "ThreeMF"
      [] OTHER -> ""

BagsOf(family) ==
    CASE family = "PNG" -> PNGBags
      [] family = "STL" -> STLBags
      [] family = "SVG" -> SVGBags
      [] family = "PDF" -> PDFBags
      [] family = "ThreeMF" -> ThreeMFBags

\* The requests the helpers are called with: every format, the empty one
\* included, with every bag of its own family, and with a bag in every family.
HelperRequests ==
    {[endpoint |-> "export", ScadContent |-> ScadText, Format |-> f,
      SummaryType |-> Str(""), Options |-> o] :
        f \in RequestFormats \cup {""}, o \in {NoOptions, SampleOptions, FullOptions}}
    \cup UNION {{[endpoint |-> "export", ScadContent |-> ScadText, Format |-> f,
                  SummaryType |-> Str(""), Options |-> [NoOptions EXCEPT ![Family(f)] = bag]] :
                    bag \in BagsOf(Family(f))} : f \in DocumentedFormats}

\* Every caller holds the same request and is about to call a helper: the
\* first any of them, the others buildExportOptions.
InitHelpers ==
    /\ rev \in Revs
    /\ pc = [c \in Calls |-> "call"]
    /\ body = [c \in Calls |-> NoBody]
    /\ \E r \in HelperRequests : req = [c \in Calls |-> r]
    /\ tmpDir = [c \in Calls |-> ""]
    /\ args = [c \in Calls |-> <<>>]
    /\ cwd = [c \in Calls |-> ""]
    /\ proc = [c \in Calls |-> NoProc]
    /\ ctxErr = [c \in Calls |-> "nil"]
    /\ runErr = [c \in Calls |-> NilErr]
    /\ out = [c \in Calls |-> NoOut]
    /\ ret = [c \in Calls |-> NoRet]
    /\ resp = [c \in Calls |-> NoResp]
    /\ fs = << >>
    /\ steps = [c \in Calls |-> <<>>]

\* s.validateFormat(req.Format): the error is left in ret[c].err.
CallValidateFormat(c) ==
    /\ pc[c] = "call"
    /\ ret' = [ret EXCEPT ![c].err = validateFormat(req[c].Format)]
    /\ pc' = [pc EXCEPT ![c] = "validateFormat"]
    /\ UNCHANGED <<rev, body, req, tmpDir, args, cwd, proc, ctxErr, runErr, out, resp, fs, steps>>

\* s.getOutputExtension(req.Format): the two strings are left in args[c].
CallGetOutputExtension(c) ==
    /\ pc[c] = "call"
    /\ args' = [args EXCEPT ![c] = <<Str(getOutputExtension(req[c].Format)[1]),
                                     Str(getOutputExtension(req[c].Format)[2])>>]
    /\ pc' = [pc EXCEPT ![c] = "getOutputExtension"]
    /\ UNCHANGED <<rev, body, req, tmpDir, cwd, proc, ctxErr, runErr, out, ret, resp, fs, steps>>

\* s.getContentType(req.Format): the string is left in ret[c].contentType.
CallGetContentType(c) ==
    /\ pc[c] = "call"
    /\ ret' = [ret EXCEPT ![c].contentType = getContentType(req[c].Format)]
    /\ pc' = [pc EXCEPT ![c] = "getContentType"]
    /\ UNCHANGED <<rev, body, req, tmpDir, args, cwd, proc, ctxErr, runErr, out, resp, fs, steps>>

\* Mutant: the token slice is kept in the service and every call appends
\* to what an earlier call left there.
CallBuildExportOptions_SharedSlice(c) ==
    /\ pc[c] = "call"
    /\ \E c2 \in Calls :
          /\ c2 # c \/ NumCalls = 1
          /\ args' = [args EXCEPT ![c] = (IF c2 # c THEN args[c2] ELSE <<>>)
                                         \o buildExportOptions(req[c])]
    /\ pc' = [pc EXCEPT ![c] = "buildExportOptions"]
    /\ UNCHANGED <<rev, body, req, tmpDir, cwd, proc, ctxErr, runErr, out, ret, resp, fs, steps>>

\* s.buildExportOptions(req): the tokens are left in args[c].
CallBuildExportOptions(c) ==
    /\ pc[c] = "call"
    /\ args' = [args EXCEPT ![c] = buildExportOptions(req[c])]
    /\ pc' = [pc EXCEPT ![c] = "buildExportOptions"]
    /\ UNCHANGED <<rev, body, req, tmpDir, cwd, proc, ctxErr, runErr, out, ret, resp, fs, steps>>

\* The staging directory the argument list is assembled for.
HelperDir == "/tmp/scad-export-1"

\* Export's assembly of the argument list from the three helpers.
CallExportArgs(c) ==
    /\ pc[c] = "call"
    /\ tmpDir' = [tmpDir EXCEPT ![c] = HelperDir]
    /\ args' = [args EXCEPT ![c] = ExportArgs(rev, req[c], HelperDir)]
    /\ pc' = [pc EXCEPT ![c] = "exportArgs"]
    /\ UNCHANGED <<rev, body, req, cwd, proc, ctxErr, runErr, out, ret, resp, fs, steps>>

NextHelpers ==
    \/ CallValidateFormat(1)
    \/ CallGetOutputExtension(1)
    \/ CallGetContentType(1)
    \/ CallBuildExportOptions(1)
    \/ CallExportArgs(1)
    \/ \E c \in Calls \ {1} : CallBuildExportOptions(c)

SpecHelpers == InitHelpers /\ [][NextHelpers]_vars

\* =================================================================== claims
IsExport(c) == req[c].endpoint = "export"
IsSummary(c) == req[c].endpoint = "summary"
\* The service function of call c has returned.
Returned(c) == pc[c] \in {"returned", "responded"} /\ Did(c, "invoke")
TimedOut == Errorf("openscad command timed out")
Unsupported(c) == Errorf("unsupported format: " \o req[c].Format)
LastStep(c) == IF steps[c] = <<>> THEN "" ELSE steps[c][Len(steps[c])]

\* C1: every Export call that created a staging directory has returned only
\* when that directory no longer exists, whatever the exit path.
C1_ExportStagingRemoved ==
    \A c \in Calls :
        Returned(c) /\ IsExport(c) /\ Did(c, "mkdir") => tmpDir[c] \notin DOMAIN fs

\* C2 as stated: every Summary call that created a staging directory has
\* returned only when that directory no longer exists.
C2_SummaryStagingGone ==
    \A c \in Calls :
        Returned(c) /\ IsSummary(c) /\ Did(c, "mkdir") => tmpDir[c] \notin DOMAIN fs

\* C2 amended: every Summary call that created a staging directory has run
\* the deferred RemoveAll exactly once, as its last step, before it returns;
\* the directory is gone on return unless that RemoveAll itself failed.
C2_SummaryStagingRemoved ==
    \A c \in Calls :
        Returned(c) /\ IsSummary(c) /\ Did(c, "mkdir") =>
            /\ LastStep(c) \in {"remove", "removefail"}
            /\ Cardinality({i \in 1..Len(steps[c]) :
                              steps[c][i] \in {"remove", "removefail"}}) = 1
            /\ (LastStep(c) = "remove" => tmpDir[c] \notin DOMAIN fs)

\* C2 witness: a Summary call that timed out has returned, its directory removed.
C2_Witness ==
    \E c \in Calls :
        /\ Returned(c) /\ IsSummary(c) /\ ret[c].err = TimedOut
        /\ LastStep(c) = "remove" /\ tmpDir[c] \notin DOMAIN fs

\* C3: once the deadline has passed no child of the call is running; a call
\* whose child was killed by the deadline returns the timeout error, never
\* reads the output file, and has no running child when it returns.
C3_TimeoutKillsAndReports ==
    \A c \in Calls :
        /\ ctxErr[c] = "DeadlineExceeded" => proc[c].state # "running"
        /\ Did(c, "killed") => pc[c] # "read" /\ ~Did(c, "read")
        /\ Did(c, "killed") /\ pc[c] \in {"cleanup", "returned", "responded"} =>
               ret[c].err = TimedOut
        /\ Returned(c) => proc[c].state # "running"

\* C3 witness: an Export call whose child was killed after leaving a partial
\* output file has returned the timeout error.
C3_Witness ==
    \E c \in Calls :
        /\ Returned(c) /\ IsExport(c) /\ Did(c, "killed")
        /\ proc[c].state = "killed" /\ ret[c].err = TimedOut
        /\ out[c].stdout # ""

\* C4: a call never waits for its child once the deadline has passed, and
\* every call that entered the service returns, whatever the child does.
C4_CallsReturn ==
    /\ [](\A c \in Calls : ctxErr[c] = "DeadlineExceeded" => pc[c] # "wait")
    /\ \A c \in Calls : Did(c, "invoke") ~> Returned(c)

\* C4 witness: a Summary call whose child never exited on its own has returned.
C4_Witness ==
    \E c \in Calls : Returned(c) /\ IsSummary(c) /\ proc[c].state = "killed"

\* C5: an Export call with a format outside the documented enumeration
\* returns the unsupported-format error, and has created no directory,
\* written no file and started no process.
C5_InvalidFormatFailsFast ==
    \A c \in Calls :
        IsExport(c) /\ req[c].Format \notin DocumentedFormats =>
            /\ ~Did(c, "mkdir") /\ ~Did(c, "write") /\ ~Did(c, "spawn")
            /\ tmpDir[c] = "" /\ proc[c] = NoProc
            /\ pc[c] \in {"validate", "returned", "responded"}
            /\ Returned(c) => ret[c].err = Unsupported(c)

\* C5 witness: Export of format invalid_format has returned the error.
C5_Witness ==
    \E c \in Calls :
        /\ Returned(c) /\ IsExport(c) /\ req[c].Format = "invalid_format"
        /\ ret[c].err = Errorf("unsupported format: invalid_format")

\* C6: validateFormat accepts exactly png, stl_binary, stl_ascii, svg, pdf,
\* 3mf, webp and avif: an Export call is past validation without the
\* unsupported-format error exactly when its format is one of them.
C6_ValidateFormatAccepts ==
    \A c \in Calls :
        IsExport(c) /\ Did(c, "invoke") /\ pc[c] # "validate" =>
            (ret[c].err # Unsupported(c) <=> req[c].Format \in DocumentedFormats)

\* The bytes Export is to return for the bytes b of the output file.
ExpectedBytes(format, b) ==
    IF format = "webp" THEN convertPNGToWebP(b).data
    ELSE IF format = "avif" THEN convertPNGToAVIF(b).data
    ELSE b

\* C7: Export of webp or avif is not refused but has the tool render a PNG
\* (output.png) and returns those bytes re-encoded; Export of any other
\* format returns the bytes of the output file unchanged.
C7_ReencodeOrPassThrough ==
    \A c \in Calls :
        IsExport(c) /\ Did(c, "invoke") =>
            /\ req[c].Format \in {"webp", "avif"} /\ Returned(c) =>
                   ret[c].err # Unsupported(c)
            /\ req[c].Format \in {"webp", "avif"} /\ Did(c, "spawn") =>
                   OutputFile(c).base = "output.png"
            /\ LastStep(c) = "read" /\ ret[c].err.nil /\ FileExists(OutputFile(c)) =>
                   ret[c].data = ExpectedBytes(req[c].Format,
                                               fs[OutputFile(c).dir][OutputFile(c).base])

\* What happened in the service, by its error.
Rejected(c) == ret[c].err = Unsupported(c) /\ steps[c] = <<"invoke">>

BadBody(b) ==
    \/ ~b.json
    \/ b.scad_content \in {None, Some("")}
    \/ b.endpoint = "export" /\ b.format \in {None, Some("")}

\* C9: a request whose body is no JSON or lacks scad_content (for export:
\* or format), or has it empty, is answered 400 "invalid request" and the
\* service is never entered for it.
C9_BadBodyRejected ==
    \A c \in Calls :
        pc[c] # "idle" /\ BadBody(body[c]) =>
            /\ pc[c] = "responded"
            /\ resp[c].status = 400 /\ resp[c].error = "invalid request"
            /\ steps[c] = <<>> /\ tmpDir[c] = "" /\ proc[c] = NoProc

\* C9 witness: a summary request with an empty scad_content was answered 400.
C9_Witness ==
    \E c \in Calls :
        /\ body[c].endpoint = "summary" /\ body[c].json
        /\ body[c].scad_content = Some("")
        /\ pc[c] = "responded" /\ resp[c].status = 400

HasToken(a, t) == \E i \in DOMAIN a : a[i] = Str(t)
\* call c holds the argument list Export assembled
HasExportArgs(c) ==
    IsExport(c) /\ args[c] # <<>> /\ pc[c] \notin {"getOutputExtension", "buildExportOptions"}

\* The extension and export-format flag the spec gives each format.
SpecExtension(format) ==
    CASE format = "stl_binary" -> <<"stl", "binstl">>
      [] format = "stl_ascii" -> <<"stl", "asciistl">>
      [] format \in {"png", "webp", "avif"} -> <<"png", "">>
      [] format \in {"svg", "pdf", "3mf"} -> <<format, "">>

\* C11: getOutputExtension gives stl_binary ("stl","binstl"), stl_ascii
\* ("stl","asciistl"), png, webp and avif ("png",""), svg, pdf and 3mf their
\* own extension and no flag; Export's argument list has --export-format,
\* followed by that second component, exactly when the component is not empty.
C11_OutputExtension ==
    \A c \in Calls :
        /\ pc[c] = "getOutputExtension" /\ req[c].Format \in DocumentedFormats =>
               args[c] = <<Str(SpecExtension(req[c].Format)[1]),
                           Str(SpecExtension(req[c].Format)[2])>>
        /\ HasExportArgs(c) =>
               LET flag == getOutputExtension(req[c].Format)[2]
               IN  /\ HasToken(args[c], "--export-format") <=> flag # ""
                   /\ \A i \in DOMAIN args[c] :
                          args[c][i] = Str("--export-format") =>
                              i < Len(args[c]) /\ args[c][i + 1] = Str(flag)

\* The content type the spec gives each format.
SpecContentType(format) ==
    CASE format = "png" -> "image/png"
      [] format \in {"stl_binary", "stl_ascii"} -> "application/octet-stream"
      [] format = "svg" -> "image/svg+xml"
      [] format = "pdf" -> "application/pdf"
      [] format = "3mf" -> "application/vnd.ms-package.3dmodel+xml"
      [] format = "webp" -> "image/webp"
      [] format = "avif" -> "image/avif"
      [] OTHER -> "application/octet-stream"

\* C12: getContentType gives every format its content type, image/webp for
\* webp and image/avif for avif included, and application/octet-stream for an
\* unknown format; an Export call that succeeded returns the content type of
\* the format requested.
C12_ContentType ==
    \A c \in Calls :
        /\ pc[c] = "getContentType" => ret[c].contentType = SpecContentType(req[c].Format)
        /\ IsExport(c) /\ Returned(c) /\ ret[c].err.nil /\ Did(c, "read") =>
               ret[c].contentType = SpecContentType(req[c].Format)

\* The image-size tokens for a png option bag.
SpecImgSize(bag) ==
    IF bag = None \/ (Get(bag).Width = None /\ Get(bag).Height = None) THEN <<>>
    ELSE <<Str("--imgsize"),
           Str(ToString(IF Get(bag).Width = None THEN 800 ELSE Get(Get(bag).Width))
               \o "," \o
               ToString(IF Get(bag).Height = None THEN 600 ELSE Get(Get(bag).Height)))>>

\* C13: for png, webp and avif buildExportOptions gives exactly "--imgsize",
\* "<width>,<height>" when the png bag has a width or a height, 800 and 600
\* standing for the absent one, and nothing when the bag is absent or empty.
C13_ImgSize ==
    \A c \in Calls :
        pc[c] = "buildExportOptions" /\ req[c].Format \in {"png", "webp", "avif"} =>
            args[c] = SpecImgSize(req[c].Options.PNG)

\* The option bag buildExportOptions is to read for the format of call c.
OwnBag(c) ==
    CASE req[c].Format \in {"stl_binary", "stl_ascii"} -> req[c].Options.STL
      [] req[c].Format = "svg" -> req[c].Options.SVG
      [] req[c].Format = "pdf" -> req[c].Options.PDF
      [] req[c].Format = "3mf" -> req[c].Options.ThreeMF

\* export-stl / export-pdf / export-svg / export-3mf
OverrideFamily(format) == IF format \in {"stl_binary", "stl_ascii"} THEN "stl" ELSE format

\* The precision supplied with the request of call c, None when there is none.
SuppliedPrecision(c) ==
    IF OwnBag(c) = None THEN None ELSE Get(OwnBag(c)).DecimalPrecision

\* The positions of decimal-precision override values in a.
PrecisionTokens(a, family) ==
    {i \in DOMAIN a :
        \E p \in -1..17 :
            a[i] = Str("export-" \o family \o "/decimal-precision=" \o ToString(p))}

\* C14: for stl_binary, stl_ascii and 3mf, the options hold exactly one
\* decimal-precision override, "-O" before it and carrying p, when the
\* supplied precision p is within 1..16, and none when p is absent, below 1
\* or above 16; no error comes of an out-of-range value.
C14_PrecisionRange ==
    \A c \in Calls :
        (pc[c] = "buildExportOptions" \/ HasExportArgs(c))
        /\ req[c].Format \in {"stl_binary", "stl_ascii", "3mf"} =>
            LET p == SuppliedPrecision(c)
                family == OverrideFamily(req[c].Format)
                toks == PrecisionTokens(args[c], family)
            IN  /\ IF IsSome(p) /\ Get(p) >= 1 /\ Get(p) <= 16
                   THEN /\ Cardinality(toks) = 1
                        /\ \A i \in toks :
                             /\ args[c][i] = Str("export-" \o family \o "/decimal-precision="
                                                 \o ToString(Get(p)))
                             /\ i > 1 /\ args[c][i - 1] = Str("-O")
                   ELSE toks = {}
                /\ pc[c] \in {"buildExportOptions", "exportArgs"} => ret[c].err.nil

\* C14 witness: a 3mf request with unit and precision 17 got the unit
\* override and no precision override.
C14_Witness ==
    \E c \in Calls :
        /\ pc[c] = "buildExportOptions" /\ req[c].Format = "3mf"
        /\ SuppliedPrecision(c) = Some(17)
        /\ args[c] = <<Str("-O"), Str("export-3mf/unit=centimeter")>>

\* The fields of the option bag of a family, in the order of the bag.
FieldOrder(format) ==
    CASE format = "svg" -> SVGFields
      [] format = "pdf" -> PDFFields
      [] format = "3mf" -> ThreeMFFields

\* The override key of each field.
OverrideKey ==
    [Fill |-> "fill", FillColor |-> "fill-color", Stroke |-> "stroke",
     StrokeColor |-> "stroke-color", StrokeWidth |-> "stroke-width",
     PaperSize |-> "paper-size", Orientation |-> "orientation", ShowGrid |-> "show-grid",
     GridSize |-> "grid-size", Unit |-> "unit", DecimalPrecision |-> "decimal-precision",
     Color |-> "color", ColorMode |-> "color-mode", MaterialType |-> "material-type",
     AddMetadata |-> "add-meta-data", MetadataTitle |-> "meta-data-title",
     MetadataDesigner |-> "meta-data-designer", MetadataDesc |-> "meta-data-description",
     MetadataCopyright |-> "meta-data-copyright"]

\* The text of a field's value: true/false, the shortest decimal, the digits.
OverrideValue(field, v) ==
    CASE field \in {"Fill", "Stroke", "ShowGrid", "AddMetadata"} ->
           IF v THEN "true" ELSE "false"
      [] field \in {"StrokeWidth", "GridSize"} ->
           (CASE v = [m |-> 35, e |-> 2] -> "0.35"
              [] v = [m |-> 15, e |-> 1] -> "1.5"
              [] v = [m |-> 10, e |-> 0] -> "10")
      [] field = "DecimalPrecision" -> ToString(v)
      [] OTHER -> v

\* The fields of bag b that are to be emitted, in field order.
EmittedFields(format, b) ==
    SelectSeq(FieldOrder(format),
              LAMBDA f : /\ b[f] # None
                         /\ f = "DecimalPrecision" => (Get(b[f]) >= 1 /\ Get(b[f]) <= 16))

\* One "-O", "export-<family>/<key>=<value>" pair per emitted field.
OverridePairs(format, b) ==
    LET E == EmittedFields(format, b)
    IN  [i \in 1..(2 * Len(E)) |->
            IF i % 2 = 1 THEN Str("-O")
            ELSE Str("export-" \o format \o "/" \o OverrideKey[E[i \div 2]] \o "="
                     \o OverrideValue(E[i \div 2], Get(b[E[i \div 2]])))]

\* C15: for svg, pdf and 3mf the options are one "-O", "export-<family>/
\* <key>=<value>" pair for each field present (3mf precision: and in range),
\* in the field order of the bag, whatever the other fields are; so their
\* length is twice the number of such fields, and zero without a bag.
C15_OverridePairs ==
    \A c \in Calls :
        pc[c] = "buildExportOptions" /\ req[c].Format \in {"svg", "pdf", "3mf"} =>
            IF OwnBag(c) = None THEN args[c] = <<>>
            ELSE /\ args[c] = OverridePairs(req[c].Format, Get(OwnBag(c)))
                 /\ Len(args[c]) = 2 * Len(EmittedFields(req[c].Format, Get(OwnBag(c))))

\* C15 witness: three pdf fields, the second and the fourth of the bag among
\* them, gave six tokens.
C15_Witness ==
    \E c \in Calls :
        /\ pc[c] = "buildExportOptions" /\ req[c].Format = "pdf"
        /\ OwnBag(c) # None
        /\ EmittedFields("pdf", Get(OwnBag(c))) = <<"Orientation", "GridSize", "StrokeWidth">>
        /\ args[c] = <<Str("-O"), Str("export-pdf/orientation=landscape"),
                       Str("-O"), Str("export-pdf/grid-size=10"),
                       Str("-O"), Str("export-pdf/stroke-width=1.5")>>

\* The read-failed errors of call c: the file is missing, or cannot be read.
ReadFailedErrors(c) ==
    {Errorf((IF IsExport(c) THEN "failed to read output file: "
             ELSE "failed to read summary file: ") \o why) :
        why \in {"open " \o OutputFile(c).text \o ": no such file or directory",
                 "read " \o OutputFile(c).text \o ": input/output error"}}

\* C16: the output file (Summary: the summary file) is read only after the
\* child exited with status 0; when it is then missing or cannot be read the
\* call returns a read-failed error and no data, and an Export that returns
\* success returns the bytes the file holds.
C16_ReadFailed ==
    /\ [][\A c \in Calls : \A ioOK \in BOOLEAN :
            ReadOutput(c, ioOK) /\ (~ioOK \/ ~FileExists(OutputFile(c))) =>
                /\ proc[c].state = "exited" /\ proc[c].code = 0
                /\ ret'[c].err \in ReadFailedErrors(c)
                /\ ret'[c].data = "" /\ ret'[c].summary = None]_vars
    /\ [](\A c \in Calls :
            IsExport(c) /\ LastStep(c) = "read" /\ ret[c].err.nil =>
                /\ FileExists(OutputFile(c))
                /\ ret[c].data = fs[OutputFile(c).dir][OutputFile(c).base])

\* C16 witness: the child of a Summary call exited with status 0 and left no
\* summary file; the call returned the read-failed error.
C16_Witness ==
    \E c \in Calls :
        /\ IsSummary(c) /\ Returned(c) /\ Did(c, "read")
        /\ proc[c].state = "exited" /\ proc[c].code = 0
        /\ ret[c].err = Errorf("failed to read summary file: open " \o tmpDir[c]
                               \o "/summary.json: no such file or directory")

\* The process-failed errors that carry all of the child's output.
ProcessFailedErrors(c) ==
    {Errorf("openscad command failed: " \o runErr[c].msg \o label \o text) :
        label \in {", output: ", ", stderr: "},
        text \in {out[c].stdout \o out[c].stderr, out[c].stderr \o out[c].stdout}}

\* executeCommand of call c has returned.
Classified(c) == pc[c] \in {"read", "cleanup", "returned", "responded"}

\* C17: when the child could not be started, or exited on its own with a
\* status other than 0, executeCommand returns the process-failed error, its
\* text holding all the child wrote to standard output and standard error;
\* when the child exited with status 0 executeCommand returns no error.
C17_ProcessFailed ==
    \A c \in Calls :
        /\ Did(c, "write") /\ Classified(c) /\ ~Did(c, "killed") /\ ~runErr[c].nil =>
               ret[c].err \in ProcessFailedErrors(c)
        /\ Did(c, "exited") /\ Classified(c) /\ proc[c].code = 0 =>
               pc[c] = "read" \/ Did(c, "read")

\* C18: the argument list of Export starts with the output path ("-o" and
\* the path of output.<ext> in the staging directory), goes on with the
\* export-format flag if the format has one, then the option tokens of
\* buildExportOptions, and ends with the path of the staged input.scad,
\* which occurs nowhere else.
C18_ArgumentOrder ==
    \A c \in Calls :
        HasExportArgs(c) =>
            LET a == args[c]
                input == Join(tmpDir[c], "input.scad")
                ext == getOutputExtension(req[c].Format)
                k == IF ext[2] # "" THEN 5 ELSE 3
            IN  /\ Len(a) >= 3
                /\ a[1] = Str("-o") /\ a[2] = Join(tmpDir[c], "output." \o ext[1])
                /\ ext[2] # "" => a[3] = Str("--export-format") /\ a[4] = Str(ext[2])
                /\ SubSeq(a, k, Len(a) - 1) = buildExportOptions(req[c])
                /\ a[Len(a)] = input
                /\ \A i \in 1..(Len(a) - 1) : a[i] # input

\* C19: the child of an Export call runs in the staging directory of the
\* call, not in the working directory of the service.
C19_ExportWorkDir ==
    \A c \in Calls :
        IsExport(c) /\ Did(c, "spawn") =>
            cwd[c] = tmpDir[c] /\ cwd[c] # ServiceWorkDir

\* C20: the argument list of Summary has "--summary" once, followed by "all"
\* when the body's summary_type is absent or empty and by the body's
\* summary_type, unchanged, otherwise.
C20_SummaryKind ==
    \A c \in Calls :
        IsSummary(c) /\ args[c] # <<>> =>
            /\ {i \in DOMAIN args[c] : args[c][i] = Str("--summary")} = {1}
            /\ args[c][2] = IF body[c].summary_type \in {None, Some(Str(""))}
                            THEN Str("all")
                            ELSE Get(body[c].summary_type)

\* C20 witness: a Summary call whose body has no summary_type started the
\* child with the kind "all".
C20_Witness ==
    \E c \in Calls :
        /\ IsSummary(c) /\ Did(c, "spawn") /\ body[c].summary_type = None
        /\ args[c][1] = Str("--summary") /\ args[c][2] = Str("all")

\* The file contents that are a top-level mapping from strings to values.
IsMapping(content) == content = JSONOBJ

\* The parse errors of Summary.
ParseErrors ==
    {Errorf("failed to parse summary JSON: " \o why) :
        why \in {"json: cannot unmarshal array into Go value of type map[string]interface {}",
                 "invalid character looking for beginning of value"}}

\* C21: Summary returns success only when the summary file holds a top-level
\* mapping, and then returns that mapping; a file that holds anything else
\* gives a parse error (or a read error), never a success with an empty or
\* partial mapping.
C21_SummaryParse ==
    \A c \in Calls :
        IsSummary(c) /\ LastStep(c) = "read" /\ FileExists(OutputFile(c)) =>
            LET content == fs[OutputFile(c).dir][OutputFile(c).base]
            IN  /\ ret[c].err.nil =>
                    /\ IsMapping(content)
                    /\ ret[c].summary =
                         Some([nil |-> FALSE, entries |-> {<<"geometry", "{\"facets\":6}">>}])
                /\ ~IsMapping(content) =>
                    /\ ret[c].err \in ParseErrors \cup ReadFailedErrors(c)
                    /\ ret[c].summary = None

\* how often event e is among the events of call c
Count(c, e) == Cardinality({i \in DOMAIN steps[c] : steps[c][i] = e})

\* C22: a call starts the external executable at most once and waits for it
\* at most once; once a call holds an error it is on its way out (deferred
\* cleanup, return, answer) and neither its error nor its process changes.
C22_SpawnedOnce ==
    /\ [](\A c \in Calls :
            /\ Count(c, "spawn") <= 1
            /\ Count(c, "exited") + Count(c, "killed") <= 1
            /\ ~ret[c].err.nil => pc[c] \in {"cleanup", "returned", "responded"})
    /\ [][\A c \in Calls :
            ~ret[c].err.nil => ret'[c] = ret[c] /\ proc'[c] = proc[c]]_vars

\* C22 witness: an Export call whose child exited with status 1 has returned
\* the process-failed error after one spawn.
C22_Witness ==
    \E c \in Calls :
        /\ IsExport(c) /\ Returned(c) /\ Count(c, "spawn") = 1
        /\ proc[c].state = "exited" /\ proc[c].code = 1
        /\ ~ret[c].err.nil /\ ret[c].err # TimedOut

\* C23: the deferred removal of the staging directory, failed or not, leaves
\* the value the call returns (bytes and content type, mapping, error) as it
\* was; no call returns an error of the removal.
C23_CleanupSilent ==
    [][\A c \in Calls : \A ok \in BOOLEAN :
          Cleanup(c, ok) => ret'[c] = ret[c] /\ pc'[c] = "returned"]_vars

\* C23 witness: an Export call whose RemoveAll failed returned the bytes of
\* the output file, no error, and its directory is still there.
C23_Witness ==
    \E c \in Calls :
        /\ IsExport(c) /\ Returned(c) /\ LastStep(c) = "removefail"
        /\ ret[c].err.nil /\ ret[c].data = PNG1 /\ ret[c].contentType = "image/png"
        /\ tmpDir[c] \in DOMAIN fs

\* The place of an event in the order of a call.
Rank(e) ==
    CASE e = "invoke" -> 0
      [] e = "mkdir" -> 1
      [] e = "write" -> 2
      [] e = "spawn" -> 3
      [] e \in {"exited", "killed"} -> 4
      [] e = "read" -> 5
      [] e \in {"remove", "removefail"} -> 6

\* C25: the events of a call come in the order create directory, write
\* input, spawn, exit, read, remove, none twice and none before the one it
\* follows; only the removal may come early, after a failure.  The output is
\* read only after the child exited with status 0, and while the call
\* writes, runs the child or reads, its directory exists.
C25_StepOrder ==
    \A c \in Calls :
        /\ \A i \in 2..Len(steps[c]) :
              \/ Rank(steps[c][i]) = Rank(steps[c][i - 1]) + 1
              \/ Rank(steps[c][i]) = 6 /\ Rank(steps[c][i - 1]) \in 1..5
        /\ steps[c] # <<>> => steps[c][1] = "invoke"
        /\ Did(c, "read") \/ pc[c] = "read" =>
              /\ Did(c, "exited") /\ proc[c].state = "exited" /\ proc[c].code = 0
              /\ ~Did(c, "killed")
        /\ pc[c] \in {"write", "exec", "wait", "classify", "read"} =>
              /\ tmpDir[c] \in DOMAIN fs
              /\ ~Did(c, "remove") /\ ~Did(c, "removefail")

\* C25 witness: a Summary call went through all six steps.
C25_Witness ==
    \E c \in Calls :
        /\ IsSummary(c)
        /\ steps[c] = <<"invoke", "mkdir", "write", "spawn", "exited", "read", "remove">>

\* Call c has its staging directory and has not returned.
InFlight(c) == pc[c] \in {"write", "exec", "wait", "classify", "read", "cleanup"}

\* C24: two calls in flight never have the same staging directory, the
\* directory of a call in flight exists, and no step of a call, its cleanup
\* included, removes or changes the directory or the files of another call
\* in flight.
C24_Isolation ==
    /\ [](\A c \in Calls :
            InFlight(c) =>
                /\ tmpDir[c] \in DOMAIN fs
                /\ \A c2 \in Calls \ {c} : InFlight(c2) => tmpDir[c2] # tmpDir[c])
    /\ [][\A c \in Calls :
            InFlight(c) /\ pc'[c] = pc[c] =>
                /\ tmpDir[c] \in DOMAIN fs'
                /\ fs'[tmpDir[c]] = fs[tmpDir[c]]]_vars

\* C24 witness: two Summary calls were in flight together; one has removed
\* its directory while the other is about to read its summary file.
C24_Witness ==
    \E c \in Calls : \E c2 \in Calls \ {c} :
        /\ IsSummary(c) /\ IsSummary(c2)
        /\ LastStep(c) = "remove" /\ tmpDir[c] \notin DOMAIN fs
        /\ pc[c2] = "read" /\ FileExists(OutputFile(c2))
        /\ FileExists(Join(tmpDir[c2], "input.scad"))

OnlyOwnBag(r) ==
    [r EXCEPT !.Options =
        IF Family(r.Format) = "" THEN NoOptions
        ELSE [NoOptions EXCEPT ![Family(r.Format)] = r.Options[Family(r.Format)]]]

\* C30: the tokens of buildExportOptions are those of the request without
\* the bags of the other families, so a bag of another family adds no
\* token; a request with no bag has no token, whatever its format.
C30_OwnFamilyOnly ==
    \A c \in Calls :
        pc[c] = "buildExportOptions" =>
            /\ args[c] = buildExportOptions(OnlyOwnBag(req[c]))
            /\ req[c].Options = NoOptions => args[c] = <<>>
            /\ Family(req[c].Format) = "" => args[c] = <<>>
            /\ Family(req[c].Format) # "" /\ req[c].Options[Family(req[c].Format)] = None =>
                   args[c] = <<>>

\* C30 witness: a png request that carries a bag of every family has the
\* image size and nothing else.
C30_Witness ==
    \E c \in Calls :
        /\ pc[c] = "buildExportOptions" /\ req[c].Format = "png"
        /\ req[c].Options = FullOptions
        /\ args[c] = <<Str("--imgsize"), Str("1024,768")>>

\* C27: the child of a Summary call runs in the staging directory of the
\* call, whatever the request carries as summary_type.
C27_SummaryWorkDir ==
    \A c \in Calls :
        IsSummary(c) /\ Did(c, "spawn") => cwd[c] = tmpDir[c]

\* C28: a call whose child exited on its own with a status other than 0
\* returns the process-failed error with the captured output, not the
\* timeout error, also when the deadline passes after the exit; the timeout
\* error is returned only by a call whose child the deadline killed.
C28_TimeoutOnlyWhenKilled ==
    \A c \in Calls :
        Did(c, "write") /\ Classified(c) =>
            /\ Did(c, "exited") /\ proc[c].code # 0 =>
                   /\ ret[c].err # TimedOut
                   /\ ret[c].err =
                        Errorf("openscad command failed: exit status " \o ToString(proc[c].code)
                               \o (IF rev = 1 THEN ", output: " ELSE ", stderr: ")
                               \o out[c].buf)
            /\ ret[c].err = TimedOut => Did(c, "killed")

\* C29: a format validateFormat accepts has an output extension and, unless
\* it is an STL format, a content type other than the default; so no child
\* is given the output path "output." and no successful Export of another
\* format than STL has the default content type.
C29_FormatTablesAgree ==
    \A c \in Calls :
        IsExport(c) /\ Did(c, "invoke") =>
            /\ validateFormat(req[c].Format).nil =>
                   /\ getOutputExtension(req[c].Format)[1] # ""
                   /\ getContentType(req[c].Format) = "application/octet-stream" =>
                          req[c].Format \in {"stl_binary", "stl_ascii"}
            /\ Did(c, "spawn") =>
                   /\ ValueOf(args[c], "-o").base \notin {"", "output."}
                   /\ OutputFile(c) = ValueOf(args[c], "-o")
            /\ Returned(c) /\ ret[c].err.nil =>
                   \/ ret[c].contentType \notin {"", "application/octet-stream"}
                   \/ req[c].Format \in {"stl_binary", "stl_ascii"}

\* C29 witness: an Export of 3mf wrote to output.3mf and returned with the
\* content type of 3mf.
C29_Witness ==
    \E c \in Calls :
        /\ IsExport(c) /\ Returned(c) /\ ret[c].err.nil /\ req[c].Format = "3mf"
        /\ ValueOf(args[c], "-o").base = "output.3mf"
        /\ ret[c].contentType = "application/vnd.ms-package.3dmodel+xml"

====
